---- MODULE Spec2Model ----
(***************************************************************************)
(* TOTPGen (robpellegrin/TOTPGen): the TOTP generator of src/totp.py and   *)
(* the encrypted secrets file of src/secrets.py.                           *)
(*                                                                         *)
(* Python strings and bytes are sequences of one-character strings.        *)
(* HMAC-SHA1, SHA-256 and Fernet are library code: the digest is a fixed   *)
(* deterministic stand-in function of (key, message), encryption is        *)
(* symbolic (a token records the key, the plaintext and a fresh nonce).    *)
(* The clock is a controllable clock in whole seconds: every clock read of *)
(* one call sees the same value.                                           *)
(***************************************************************************)
EXTENDS Integers, Sequences, FiniteSets, TLC

VARIABLES
    \* ---- src/totp.py: one TOTP instance and the clock
    now,            \* time(): unix time in seconds
    secret,         \* self.__secret
    digits,         \* self.__digits
    last_updated,   \* self.__last_updated (as a timestamp)
    counter,        \* self.__counter
    hmac_digest,    \* hmac_digest of the last __set_hotp
    totp,           \* self.totp
    ret,            \* what the last get_totp() returned (None before any call)
    age,            \* history: current_time - last_updated as the last get_totp() found it
    called,         \* history: the last step was a get_totp() call
    \* ---- src/secrets.py: the files and one SecretsFile instance
    keyfile,        \* the key file on disk: NoKeyFile or its bytes
    db,             \* secrets.db: NoFile or File(lines), a line a sequence of tokens
    staging,        \* ./secret.txt: NoFile or File(text)
    deletable,      \* whether os.remove("./secret.txt") is permitted
    phase,          \* "none" (no object), "open" (constructed), "failed" (__init__ raised)
    data,           \* self.data: a list of strings or (after encrypt_data) bytes
    updated,        \* self.__updated
    cipher,         \* self.__cipher_suite: the derived key, None before derive_key
    err,            \* the exception the last operation raised, or "none"
    act,            \* the last operation
    arg,            \* the argument of the last remove_entry
    writes,         \* number of encryptions so far (the nonce of the next token)
    pre,            \* history: self.data as the last operation found it (for
                    \* __init__: as its check_new_entry found it)
    saved,          \* history: the entry list and key of the last write of secrets.db
    merged,         \* history: this session merged a staging file
    removed,        \* history: this session's remove_entry removed an entry
    \* ---- src/totp.py: further results of one TOTP instance
    fmt,            \* what the last get_totp_fmt() returned (None before any call)
    raised,         \* the exception the last __set_hotp raised, or "none"
    \* ---- src/main.py: the Base32 decoder as a function
    encoded,        \* the padded string handed to __b32decode
    decoded,        \* its result: [done, bytes]
    \* ---- src/totp.py: the ordering of two TOTP objects
    name_a,         \* self.name
    name_b,         \* other.name
    lt,             \* the result of self < other: [done, value]
    \* ---- src/view.py: the window
    current_value,  \* self.current_value
    totp_objects,   \* self.totp_objects: the TOTP instances, each its fields
    totp_labels,    \* self.totp_labels: the text of each code label
    ticks,          \* history: timer ticks since the countdown was (re)started
    refreshes       \* history: number of refresh_totp_codes calls so far

totpVars  == <<now, secret, digits, last_updated, counter, hmac_digest, totp, ret,
               age, called>>
storeVars == <<keyfile, db, staging, deletable, phase, data, updated, cipher, err,
               act, arg, writes, pre, saved, merged, removed>>
fmtVars   == <<fmt, raised>>
b32Vars   == <<encoded, decoded>>
ordVars   == <<name_a, name_b, lt>>
viewVars  == <<current_value, totp_objects, totp_labels, ticks, refreshes>>
auxVars   == <<fmtVars, b32Vars, ordVars, viewVars>>
vars == <<totpVars, storeVars, auxVars>>

\* Python's None where a string, a key or bytes may stand; no file; no value yet.
None == <<"None">>
NoFile == [exists |-> FALSE, content |-> <<>>]
File(content) == [exists |-> TRUE, content |-> content]
NoKeyFile == "NoKeyFile"
NoData == [kind |-> "none", list |-> <<>>, bytes |-> <<>>]
NoSave == [valid |-> FALSE, list |-> <<>>, key |-> None]
NotDone == [done |-> FALSE, bytes |-> <<>>]
NoResult == [done |-> FALSE, value |-> FALSE]

\* The parts a specification does not use stay as they are.
FmtIdle == fmt = None /\ raised = "none"
B32Idle == encoded = <<>> /\ decoded = NotDone
OrdIdle == name_a = <<>> /\ name_b = <<>> /\ lt = NoResult
ViewIdle ==
    /\ current_value = 0 /\ totp_objects = <<>> /\ totp_labels = <<>>
    /\ ticks = 0 /\ refreshes = 0
AuxIdle == FmtIdle /\ B32Idle /\ OrdIdle /\ ViewIdle

\* ------------------------------------------------------------------ bounds

\* Largest clock value of the model.
MaxTime == 70
\* Latest construction time of the TOTP instance.
MaxStart == 29
\* Number of staging-file lines.
MaxStagingLines == 2
\* Number of lines of a secrets.db found on disk.
MaxDbLines == 2
\* Number of entries a direct check_new_entry() call may grow the list to.
MaxEntries == 4
\* Number of encryptions (writes of secrets.db) in one behaviour.
MaxWrites == 2

\* ------------------------------------------------------------ Python text

DigitChars == <<"0", "1", "2", "3", "4", "5", "6", "7", "8", "9">>

\* str(n) for an int n >= 0.
RECURSIVE Str(_)
Str(n) == IF n < 10 THEN <<DigitChars[n + 1]>>
          ELSE Append(Str(n \div 10), DigitChars[(n % 10) + 1])

\* s.zfill(width) for a string without sign.
Zfill(s, width) ==
    IF Len(s) >= width THEN s ELSE [i \in 1..(width - Len(s)) |-> "0"] \o s

\* ------------------------------------------------- src/totp.py: the codes

BASE32_ALPHABET ==
    <<"A", "B", "C", "D", "E", "F", "G", "H", "I", "J", "K", "L", "M", "N", "O", "P",
      "Q", "R", "S", "T", "U", "V", "W", "X", "Y", "Z", "2", "3", "4", "5", "6", "7">>

LowerLetters ==
    <<"a", "b", "c", "d", "e", "f", "g", "h", "i", "j", "k", "l", "m", "n", "o", "p",
      "q", "r", "s", "t", "u", "v", "w", "x", "y", "z">>

\* c.upper() for one character.
UpperChar(c) ==
    IF \E i \in 1..26 : LowerLetters[i] = c
    THEN BASE32_ALPHABET[CHOOSE i \in 1..26 : LowerLetters[i] = c]
    ELSE c

\* s.upper()
Upper(s) == [i \in 1..Len(s) |-> UpperChar(s[i])]

\* The 5-bit value of a Base32 character.
B32Value(c) == (CHOOSE i \in 1..32 : BASE32_ALPHABET[i] = c) - 1

\* base64.b32decode(secret + "=" * pad, casefold=True) of a valid secret: the
\* characters are a stream of 5-bit groups, cut into as many whole bytes as it holds.
B32Bit(s, i) == (B32Value(UpperChar(s[(i \div 5) + 1])) \div (2 ^ (4 - (i % 5)))) % 2

B32Byte(s, k) ==
    B32Bit(s, 8 * k) * 128 + B32Bit(s, 8 * k + 1) * 64 + B32Bit(s, 8 * k + 2) * 32
    + B32Bit(s, 8 * k + 3) * 16 + B32Bit(s, 8 * k + 4) * 8 + B32Bit(s, 8 * k + 5) * 4
    + B32Bit(s, 8 * k + 6) * 2 + B32Bit(s, 8 * k + 7)

b32decode(s) == [k \in 1..((5 * Len(s)) \div 8) |-> B32Byte(s, k - 1)]

\* value.to_bytes(length, byteorder="big")
RECURSIVE ToBytes(_, _)
ToBytes(value, length) ==
    IF length = 0 THEN <<>> ELSE Append(ToBytes(value \div 256, length - 1), value % 256)

\* TOTP.__custom_pack_q: ValueError for a negative value, else 8 bytes, big-endian.
CustomPackQ(value) == IF value < 0 THEN "ValueError" ELSE ToBytes(value, 8)

\* hmac.new(key, msg, sha1).digest(): 20 bytes, a deterministic function of the key
\* and the message. The library's SHA-1 is replaced by a small mixing function.
RECURSIVE Mix(_, _)
Mix(bytes, acc) ==
    IF bytes = <<>> THEN acc ELSE Mix(Tail(bytes), (acc * 31 + Head(bytes) + 7) % 65521)

HmacSha1(key, msg) ==
    LET seed == Mix(msg, Mix(key, 1))
    IN  [i \in 1..20 |-> ((seed + i) * ((seed % 251) + 2 * i + 1)) % 256]

\* A plausible slip: the mask keeps five bits of the last byte.
OffsetWide(digest) == digest[20] % 32

\* offset = hmac_digest[-1] & 15   (digests are 1-indexed here)
Offset(digest) == digest[20] % 16

\* The 31-bit big-endian integer at the offset; the masks are remainders and the
\* bit fields do not overlap, so | is +.
Truncated(digest) ==
    LET offset == Offset(digest)
    IN  (digest[offset + 1] % 128) * 16777216
        + (digest[offset + 2] % 256) * 65536
        + (digest[offset + 3] % 256) * 256
        + (digest[offset + 4] % 256)

\* truncated % (10 ** digits). A truncated value is below 2^31 < 10^10, so from 10
\* digits on the remainder is the value itself (10^10 is beyond TLC's integers).
ModPow10(truncated, ndigits) ==
    IF ndigits >= 10 THEN truncated ELSE truncated % (10 ^ ndigits)

\* A plausible slip: the code is not padded.
FormatCodeNoPad(truncated, ndigits) == Str(ModPow10(truncated, ndigits))

\* str(truncated % (10 ** digits)).zfill(digits)
FormatCode(truncated, ndigits) == Zfill(Str(ModPow10(truncated, ndigits)), ndigits)

\* TOTP.__set_hotp: the digest and the code for a secret, a counter and a width.
SetHotp(sec, ctr, ndigits) ==
    LET secret_bytes  == b32decode(sec)
        counter_bytes == CustomPackQ(ctr)
        digest        == HmacSha1(secret_bytes, counter_bytes)
    IN  [hmac_digest |-> digest, totp |-> FormatCode(Truncated(digest), ndigits)]

\* The code alone.
HotpCode(sec, ctr, ndigits) == SetHotp(sec, ctr, ndigits).totp

\* ------------------------------------------------- src/totp.py: the clock

time_step == 30

\* A plausible slip: the counter is rounded to the nearest step, not cut.
UpdateCounterRound(t) == (t + (time_step \div 2)) \div time_step

\* TOTP.__update_counter: int(time() // time_step)
UpdateCounter(t) == t \div time_step

\* A plausible slip: stale only after more than 30 seconds.
IsOldStrict(t, last) == (t - last) > 30

\* TOTP.__is_old: (current_time - last_updated.timestamp()) >= 30
IsOld(t, last) == (t - last) >= 30

\* The secrets the instance is constructed with (valid Base32, either case).
Secrets == {<<"J", "B", "S", "W", "Y", "3", "D", "P">>, <<"m", "z", "x", "w", "6">>}

\* The widths the instance is constructed with.
DigitChoices == {6, 8}

\* The secrets file is not part of the TOTP specifications.
StoreIdle ==
    /\ keyfile = NoKeyFile /\ db = NoFile /\ staging = NoFile /\ deletable = TRUE
    /\ phase = "none" /\ data = [kind |-> "list", list |-> <<>>, bytes |-> <<>>]
    /\ updated = FALSE
    /\ cipher = None /\ err = "none" /\ act = "init" /\ arg = None /\ writes = 0
    /\ pre = NoData /\ saved = NoSave /\ merged = FALSE /\ removed = FALSE

\* TOTP.__init__ at time now: the secret upper-cased, the counter and the code set.
TotpInit ==
    /\ now \in 0..MaxStart
    /\ \E s \in Secrets : secret = Upper(s)
    /\ digits \in DigitChoices
    /\ last_updated = now
    /\ counter = UpdateCounter(now)
    /\ hmac_digest = SetHotp(secret, counter, digits).hmac_digest
    /\ totp = SetHotp(secret, counter, digits).totp
    /\ ret = None
    /\ age = 0
    /\ called = FALSE
    /\ StoreIdle
    /\ AuxIdle

\* The clock advances by one second.
Tick ==
    /\ now < MaxTime
    /\ now' = now + 1
    /\ called' = FALSE
    /\ UNCHANGED <<secret, digits, last_updated, counter, hmac_digest, totp, ret, age>>
    /\ UNCHANGED <<storeVars, auxVars>>

\* TOTP.get_totp: refresh the counter and the code when the cached code is old,
\* return the cached code.
GetTotp ==
    /\ IF IsOld(now, last_updated)
       THEN /\ counter' = UpdateCounter(now)
            /\ last_updated' = now
            /\ hmac_digest' = SetHotp(secret, counter', digits).hmac_digest
            /\ totp' = SetHotp(secret, counter', digits).totp
       ELSE UNCHANGED <<counter, last_updated, hmac_digest, totp>>
    /\ ret' = totp'
    /\ age' = now - last_updated
    /\ called' = TRUE
    /\ UNCHANGED <<now, secret, digits>>
    /\ UNCHANGED <<storeVars, auxVars>>

TotpNext == Tick \/ GetTotp

SpecTotp == TotpInit /\ [][TotpNext]_vars

\* ------------------------------------- src/totp.py: truncation and format

\* Byte values a digest is built from.
ByteSamples == {0, 1, 127, 128, 255}

\* Values of the last digest byte: its low nibble is the offset.
LastByteSamples == {0, 7, 31, 138, 255}

\* A 20-byte digest with last byte l and bytes a, b, c, d at the offset l selects.
DigestWith(l, a, b, c, d) ==
    LET off == l % 16
    IN  [i \in 1..20 |->
            IF i = 20 THEN l
            ELSE IF i = off + 1 THEN a
            ELSE IF i = off + 2 THEN b
            ELSE IF i = off + 3 THEN c
            ELSE IF i = off + 4 THEN d
            ELSE (i * 37) % 256]

SampleDigests ==
    {DigestWith(l, a, b, c, d) : l \in LastByteSamples, a \in ByteSamples,
                                 b \in ByteSamples, c \in ByteSamples, d \in ByteSamples}

\* The inputs of the truncation and format steps of __set_hotp: any digest, any width.
HotpInit ==
    /\ hmac_digest \in SampleDigests
    /\ digits \in 1..10
    /\ totp = None
    /\ now = 0 /\ secret = <<>> /\ last_updated = 0 /\ counter = 0
    /\ ret = None /\ age = 0 /\ called = FALSE
    /\ StoreIdle
    /\ AuxIdle

\* TOTP.__set_hotp from the digest on: offset, truncation, remainder, format.
SetHotpCode ==
    /\ totp = None
    /\ totp' = FormatCode(Truncated(hmac_digest), digits)
    /\ UNCHANGED <<now, secret, digits, last_updated, counter, hmac_digest, ret, age, called>>
    /\ UNCHANGED <<storeVars, auxVars>>

HotpNext == SetHotpCode

SpecHotp == HotpInit /\ [][HotpNext]_vars

\* ------------------------------------------------------ claims: the codes

C2_CodeOfCurrentTime == called => ret = HotpCode(secret, now \div 30, digits)

\* The decimal value of a string of digits.
RECURSIVE ParseDec(_)
ParseDec(s) ==
    IF s = <<>> THEN 0
    ELSE 10 * ParseDec(SubSeq(s, 1, Len(s) - 1))
         + ((CHOOSE i \in 1..10 : DigitChars[i] = s[Len(s)]) - 1)

\* C10: an emitted code has exactly `digits` characters, all decimal digits, and its
\* value v is truncated mod 10^digits, so 0 <= v < 10^digits (digits in 1..10).
C10_CodeWidthAndValue ==
    totp # None =>
        /\ Len(totp) = digits
        /\ \A i \in 1..Len(totp) : \E k \in 1..10 : DigitChars[k] = totp[i]
        /\ ParseDec(totp) >= 0
        /\ (digits < 10 => ParseDec(totp) < 10 ^ digits)
        /\ ParseDec(totp) = IF digits < 10 THEN Truncated(hmac_digest) % (10 ^ digits)
                            ELSE Truncated(hmac_digest)

\* C10 witness: a code that needed padding, and one of the full 31-bit width.
C10_Witness ==
    /\ totp # None
    /\ \/ digits = 6 /\ totp[1] = "0" /\ Truncated(hmac_digest) > 0
       \/ digits = 10 /\ Truncated(hmac_digest) = 2147483647

\* ------------------------------------------- src/secrets.py: Python values

Range(s) == {s[i] : i \in 1..Len(s)}

RECURSIVE Concat(_)
Concat(ss) == IF ss = <<>> THEN <<>> ELSE Head(ss) \o Concat(Tail(ss))

Whitespace == {" ", "\n", "\t"}

\* s.strip()
RECURSIVE LStrip(_)
LStrip(s) == IF s # <<>> /\ Head(s) \in Whitespace THEN LStrip(Tail(s)) ELSE s

RECURSIVE RStrip(_)
RStrip(s) ==
    IF s # <<>> /\ s[Len(s)] \in Whitespace THEN RStrip(SubSeq(s, 1, Len(s) - 1)) ELSE s

Strip(s) == RStrip(LStrip(s))

\* f.readlines(): the text cut after every "\n", the terminators kept.
RECURSIVE ReadLinesFrom(_, _)
ReadLinesFrom(text, cur) ==
    IF text = <<>> THEN (IF cur = <<>> THEN <<>> ELSE <<cur>>)
    ELSE IF Head(text) = "\n"
         THEN <<Append(cur, "\n")>> \o ReadLinesFrom(Tail(text), <<>>)
         ELSE ReadLinesFrom(Tail(text), Append(cur, Head(text)))

ReadLines(text) == ReadLinesFrom(text, <<>>)

\* The quote repr() chooses: double quotes when the text holds ' and no ".
ReprQuote(s) == IF "'" \in Range(s) /\ ~("\"" \in Range(s)) THEN "\"" ELSE "'"

\* The escaped form of one character inside a repr().
ReprChar(c, quote) ==
    IF c = "\\" THEN <<"\\", "\\">>
    ELSE IF c = quote THEN <<"\\", c>>
    ELSE IF c = "\n" THEN <<"\\", "n">>
    ELSE IF c = "\t" THEN <<"\\", "t">>
    ELSE <<c>>

\* repr(s) of a str
ReprStr(s) ==
    LET q == ReprQuote(s)
    IN  <<q>> \o Concat([i \in 1..Len(s) |-> ReprChar(s[i], q)]) \o <<q>>

\* str(b) of a bytes object: b'...'
StrBytes(b) == <<"b">> \o ReprStr(b)

\* str(l) of a list of str: [repr, repr, ...]
StrList(l) ==
    <<"[">>
    \o Concat([i \in 1..Len(l) |-> IF i = 1 THEN ReprStr(l[i]) ELSE <<",", " ">> \o ReprStr(l[i])])
    \o <<"]">>

\* A plausible slip: every matching entry is removed.
ListRemoveAll(l, x) == SelectSeq(l, LAMBDA e : e # x)

\* list.remove(x) for an x the list holds: the first match goes.
RECURSIVE ListRemove(_, _)
ListRemove(l, x) ==
    IF l = <<>> THEN l
    ELSE IF Head(l) = x THEN Tail(l)
    ELSE <<Head(l)>> \o ListRemove(Tail(l), x)

\* ------------------------------------------ src/secrets.py: the operations

ListData(l) == [kind |-> "list", list |-> l, bytes |-> <<>>]
BytesData(b) == [kind |-> "bytes", list |-> <<>>, bytes |-> b]

\* SecretsFile.derive_key: the Fernet key is a one-way function of the key-file bytes.
DeriveKey(key_file) == <<"sha256", key_file>>

\* base64.b64encode(cipher_suite.encrypt(plaintext)): a token only its key opens.
Token(key, plaintext, nonce) == [key |-> key, pt |-> plaintext, iv |-> nonce, ok |-> TRUE]

\* A token with one byte altered.
Altered(token) == [token EXCEPT !.ok = FALSE]

\* base64.b64decode and cipher_suite.decrypt of one line of secrets.db. A line that
\* is one intact token of the key gives its plaintext; an empty line, an altered
\* token or a token of another key raises InvalidToken. For a line of several tokens
\* written back to back the library reads the first token alone when a base64 pad
\* ends it (first_only) and otherwise rejects the line: which of the two depends on
\* the length of the plaintext.
DecryptLine(line, key, first_only) ==
    IF Len(line) = 0 THEN [ok |-> FALSE, pt |-> <<>>]
    ELSE IF Len(line) > 1 /\ ~first_only THEN [ok |-> FALSE, pt |-> <<>>]
    ELSE IF line[1].ok /\ line[1].key = key THEN [ok |-> TRUE, pt |-> line[1].pt]
    ELSE [ok |-> FALSE, pt |-> <<>>]

\* A plausible slip: a line that does not decrypt is skipped.
RECURSIVE DecryptDbSkipping(_, _, _, _)
DecryptDbSkipping(file, key, first_only, acc) ==
    IF ~file.exists \/ file.content = <<>> THEN [data |-> acc, err |-> "none"]
    ELSE LET r == DecryptLine(Head(file.content), key, first_only)
         IN  DecryptDbSkipping(File(Tail(file.content)), key, first_only,
                               IF r.ok THEN Append(acc, r.pt) ELSE acc)

\* SecretsFile.decrypt_db: every line of secrets.db is decrypted and appended; the
\* first line that fails raises, with the lines before it appended; no file, no entry.
RECURSIVE DecryptDb(_, _, _, _)
DecryptDb(file, key, first_only, acc) ==
    IF ~file.exists \/ file.content = <<>> THEN [data |-> acc, err |-> "none"]
    ELSE LET r == DecryptLine(Head(file.content), key, first_only)
         IN  IF r.ok THEN DecryptDb(File(Tail(file.content)), key, first_only, Append(acc, r.pt))
             ELSE [data |-> acc, err |-> "InvalidToken"]

\* The loop of check_new_entry over the lines read: a line longer than one
\* character is stripped and appended.
RECURSIVE AppendLines(_, _)
AppendLines(l, lines) ==
    IF lines = <<>> THEN l
    ELSE AppendLines(IF Len(Head(lines)) > 1 THEN Append(l, Strip(Head(lines))) ELSE l,
                     Tail(lines))

\* SecretsFile.check_new_entry on self.data = d, self.__updated = u, the staging file
\* stg and the permission to delete it. bytes has no append: the first line to
\* append raises AttributeError, before the file is deleted.
CheckNewEntry(d, u, stg, can_delete) ==
    IF ~stg.exists THEN [data |-> d, updated |-> u, staging |-> stg, err |-> "none"]
    ELSE IF d.kind = "list"
    THEN [data |-> ListData(AppendLines(d.list, ReadLines(stg.content))), updated |-> TRUE,
          staging |-> IF can_delete THEN NoFile ELSE stg, err |-> "none"]
    ELSE IF \E i \in 1..Len(ReadLines(stg.content)) : Len(ReadLines(stg.content)[i]) > 1
    THEN [data |-> d, updated |-> TRUE, staging |-> stg, err |-> "AttributeError"]
    ELSE [data |-> d, updated |-> TRUE,
          staging |-> IF can_delete THEN NoFile ELSE stg, err |-> "none"]

\* SecretsFile.remove_entry on self.data = d, self.__updated = u: list.remove and the
\* flag, ValueError swallowed; bytes has no remove (AttributeError).
RemoveEntryOn(d, u, entry_to_remove) ==
    IF d.kind # "list" THEN [data |-> d, updated |-> u, err |-> "AttributeError"]
    ELSE IF entry_to_remove \in Range(d.list)
    THEN [data |-> ListData(ListRemove(d.list, entry_to_remove)), updated |-> TRUE,
          err |-> "none"]
    ELSE [data |-> d, updated |-> u, err |-> "none"]

\* str(self.data).encode("UTF-8")
Serialized(d) == IF d.kind = "list" THEN StrList(d.list) ELSE StrBytes(d.bytes)

\* A plausible slip: the dirty flag is not consulted.
EncryptDataAlways(d, u, key, file, nonce) ==
    LET text == Serialized(d)
        encrypted_data_b64 == Token(key, text, nonce)
    IN  [data |-> BytesData(text), db |-> File(<<[i \in 1..Len(text) |-> encrypted_data_b64]>>),
         wrote |-> TRUE]

\* SecretsFile.encrypt_data: nothing unless updated; else self.data becomes the
\* encoded text of str(self.data), which is encrypted to one token, and secrets.db is
\* rewritten: the token is written once per element of self.data (now the bytes of
\* that text), with nothing between the copies.
EncryptData(d, u, key, file, nonce) ==
    IF u = FALSE THEN [data |-> d, db |-> file, wrote |-> FALSE]
    ELSE LET text == Serialized(d)
             encrypted_data_b64 == Token(key, text, nonce)
         IN  [data |-> BytesData(text),
              db |-> File(<<[i \in 1..Len(text) |-> encrypted_data_b64]>>),
              wrote |-> TRUE]

\* --------------------------------------------- src/secrets.py: the files

\* Key files: the one secrets.db was written under, and another.
KeyFiles == {"k1", "k2"}

\* Lines of a secrets.db found on disk, one token a line: intact or altered.
InitLines ==
    {<<Token(DeriveKey("k1"), <<"a">>, 0)>>,
     <<Altered(Token(DeriveKey("k1"), <<"a">>, 0))>>}

RECURSIVE SeqsUpTo(_, _)
SeqsUpTo(S, n) ==
    IF n = 0 THEN {<<>>}
    ELSE SeqsUpTo(S, n - 1) \cup {Append(q, x) : q \in SeqsUpTo(S, n - 1), x \in S}

InitDbs == {NoFile} \cup {File(q) : q \in SeqsUpTo(InitLines, MaxDbLines)}

\* Lines of a staging file: an entry, a whitespace-only line, a blank line; the last
\* line may lack its newline.
FullLines == {<<"a", "\n">>, <<" ", "\n">>, <<"\n">>}
LastLines == FullLines \cup {<<"b">>}

StagingFiles ==
    {NoFile, File(<<>>)}
    \cup {File(Concat(Append(q, l))) : q \in SeqsUpTo(FullLines, MaxStagingLines - 1),
                                       l \in LastLines}

\* The arguments of remove_entry.
RemoveArgs == {<<"a">>, <<"z">>}

\* The TOTP instance is not part of the secrets-file specification.
TotpIdle ==
    /\ now = 0 /\ secret = <<>> /\ digits = 6 /\ last_updated = 0 /\ counter = 0
    /\ hmac_digest = <<>> /\ totp = None /\ ret = None /\ age = 0 /\ called = FALSE

\* The files before the program runs; no SecretsFile constructed yet.
Init ==
    /\ keyfile \in KeyFiles \cup {NoKeyFile}
    /\ db \in InitDbs
    /\ staging \in StagingFiles
    /\ deletable \in (IF staging.exists THEN BOOLEAN ELSE {TRUE})
    /\ phase = "none" /\ data = ListData(<<>>) /\ updated = FALSE
    /\ cipher = None /\ err = "none" /\ act = "init" /\ arg = None /\ writes = 0
    /\ pre = NoData /\ saved = NoSave /\ merged = FALSE /\ removed = FALSE
    /\ TotpIdle
    /\ AuxIdle

\* A plausible slip: the staging file is merged before secrets.db is decrypted.
OpenMergeFirst ==
    /\ phase = "none"
    /\ act' = "open"
    /\ arg' = None
    /\ removed' = FALSE
    /\ UNCHANGED <<keyfile, db, deletable, writes, saved>>
    /\ IF keyfile = NoKeyFile
       THEN /\ phase' = "failed"
            /\ err' = "FileNotFoundError"
            /\ data' = ListData(<<>>)
            /\ cipher' = None
            /\ updated' = FALSE
            /\ pre' = NoData
            /\ merged' = FALSE
            /\ UNCHANGED staging
       ELSE \E first_only \in BOOLEAN :
            LET key == DeriveKey(keyfile)
                c   == CheckNewEntry(ListData(<<>>), FALSE, staging, deletable)
                r   == DecryptDb(db, key, first_only, c.data.list)
            IN  /\ cipher' = key
                /\ data' = ListData(r.data)
                /\ updated' = c.updated
                /\ staging' = c.staging
                /\ merged' = staging.exists
                /\ pre' = NoData
                /\ IF r.err # "none"
                   THEN phase' = "failed" /\ err' = r.err
                   ELSE phase' = "open" /\ err' = c.err
    /\ UNCHANGED <<totpVars, auxVars>>

\* SecretsFile.__init__: read_keyfile, derive_key, decrypt_db, check_new_entry; an
\* exception of a step ends the construction there.
Open ==
    /\ phase = "none"
    /\ act' = "open"
    /\ arg' = None
    /\ removed' = FALSE
    /\ UNCHANGED <<keyfile, db, deletable, writes, saved>>
    /\ IF keyfile = NoKeyFile
       THEN /\ phase' = "failed"
            /\ err' = "FileNotFoundError"
            /\ data' = ListData(<<>>)
            /\ cipher' = None
            /\ updated' = FALSE
            /\ pre' = NoData
            /\ merged' = FALSE
            /\ UNCHANGED staging
       ELSE \E first_only \in BOOLEAN :
            LET key == DeriveKey(keyfile)
                r   == DecryptDb(db, key, first_only, <<>>)
                c   == CheckNewEntry(ListData(r.data), FALSE, staging, deletable)
            IN  /\ cipher' = key
                /\ IF r.err # "none"
                   THEN /\ phase' = "failed"
                        /\ err' = r.err
                        /\ data' = ListData(r.data)
                        /\ updated' = FALSE
                        /\ pre' = NoData
                        /\ merged' = FALSE
                        /\ UNCHANGED staging
                   ELSE /\ phase' = "open"
                        /\ err' = c.err
                        /\ data' = c.data
                        /\ updated' = c.updated
                        /\ staging' = c.staging
                        /\ pre' = ListData(r.data)
                        /\ merged' = staging.exists
    /\ UNCHANGED <<totpVars, auxVars>>

\* A direct call of check_new_entry on the constructed object.
CheckNewEntryCall ==
    /\ phase = "open"
    /\ Len(data.list) + MaxStagingLines <= MaxEntries
    /\ LET c == CheckNewEntry(data, updated, staging, deletable)
       IN  /\ data' = c.data
           /\ updated' = c.updated
           /\ staging' = c.staging
           /\ err' = c.err
    /\ act' = "check_new_entry"
    /\ arg' = None
    /\ pre' = data
    /\ merged' = (merged \/ staging.exists)
    /\ UNCHANGED <<keyfile, db, deletable, phase, cipher, writes, saved, removed>>
    /\ UNCHANGED <<totpVars, auxVars>>

\* SecretsFile.remove_entry(entry_to_remove)
RemoveEntry ==
    /\ phase = "open"
    /\ \E entry_to_remove \in RemoveArgs :
         LET r == RemoveEntryOn(data, updated, entry_to_remove)
         IN  /\ data' = r.data
             /\ updated' = r.updated
             /\ err' = r.err
             /\ arg' = entry_to_remove
             /\ removed' = (removed \/ r.data # data)
    /\ act' = "remove_entry"
    /\ pre' = data
    /\ UNCHANGED <<keyfile, db, staging, deletable, phase, cipher, writes, saved, merged>>
    /\ UNCHANGED <<totpVars, auxVars>>

\* What a write of secrets.db leaves in the history: the list written and its key.
SavedBy(d, key) ==
    IF d.kind = "list" THEN [valid |-> TRUE, list |-> d.list, key |-> key] ELSE NoSave

\* SecretsFile.finalize: encrypt_data when updated.
Finalize ==
    /\ phase = "open"
    /\ updated => writes < MaxWrites
    /\ LET e == IF updated = TRUE THEN EncryptData(data, updated, cipher, db, writes + 1)
                ELSE [data |-> data, db |-> db, wrote |-> FALSE]
       IN  /\ data' = e.data
           /\ db' = e.db
           /\ writes' = IF e.wrote THEN writes + 1 ELSE writes
           /\ saved' = IF e.wrote THEN SavedBy(data, cipher) ELSE saved
    /\ act' = "finalize"
    /\ arg' = None
    /\ err' = "none"
    /\ pre' = data
    /\ UNCHANGED <<keyfile, staging, deletable, phase, updated, cipher, merged, removed>>
    /\ UNCHANGED <<totpVars, auxVars>>

\* A direct call of encrypt_data on the constructed object.
EncryptDataCall ==
    /\ phase = "open"
    /\ writes < MaxWrites
    /\ LET e == EncryptData(data, updated, cipher, db, writes + 1)
       IN  /\ data' = e.data
           /\ db' = e.db
           /\ writes' = IF e.wrote THEN writes + 1 ELSE writes
           /\ saved' = IF e.wrote THEN SavedBy(data, cipher) ELSE saved
    /\ act' = "encrypt_data"
    /\ arg' = None
    /\ err' = "none"
    /\ pre' = data
    /\ UNCHANGED <<keyfile, staging, deletable, phase, updated, cipher, merged, removed>>
    /\ UNCHANGED <<totpVars, auxVars>>

\* The process ends: the object is gone, the files stay.
Close ==
    /\ phase \in {"open", "failed"}
    /\ phase' = "none"
    /\ data' = ListData(<<>>)
    /\ updated' = FALSE
    /\ cipher' = None
    /\ err' = "none"
    /\ act' = "close"
    /\ arg' = None
    /\ pre' = NoData
    /\ merged' = FALSE
    /\ removed' = FALSE
    /\ UNCHANGED <<keyfile, db, staging, deletable, writes, saved>>
    /\ UNCHANGED <<totpVars, auxVars>>

Next == Open \/ CheckNewEntryCall \/ RemoveEntry \/ Finalize \/ EncryptDataCall \/ Close

Spec == Init /\ [][Next]_vars

\* ----------------------------------------------- claims: the secrets file

\* C3: after finalize() wrote the entry list L of a dirty store, a new SecretsFile
\* constructed with the same key file and no staging file holds exactly L.
C3_StoreRoundTrip ==
    (/\ act = "open"
     /\ saved.valid
     /\ keyfile # NoKeyFile
     /\ DeriveKey(keyfile) = saved.key
     /\ ~staging.exists
     /\ ~merged)
    => (phase = "open" /\ data = ListData(saved.list))

\* C4: after finalize() on a dirty store secrets.db holds exactly one token, that of
\* the whole serialized entry list, once.
C4_OneBlobWritten ==
    (act \in {"finalize", "encrypt_data"} /\ updated)
    => /\ db.exists
       /\ Len(db.content) = 1
       /\ Len(db.content[1]) = 1
       /\ db.content[1][1] = Token(cipher, Serialized(pre), writes)

\* C5: secrets.db changes only in a finalize() (encrypt_data()) on a dirty store, and
\* in a session that merged no staging file and removed no entry finalize() leaves
\* secrets.db as it was, absent if it was absent.
C5_WriteOnlyWhenDirty ==
    [][ /\ (db' # db) => (act' \in {"finalize", "encrypt_data"} /\ updated)
        /\ (act' \in {"finalize", "encrypt_data"} /\ ~merged /\ ~removed) => (db' = db)
      ]_vars

\* C5 witness: finalize() ran on a store that merged and removed nothing, and no
\* secrets.db was created.
C5_Witness ==
    act = "finalize" /\ phase = "open" /\ ~merged /\ ~removed /\ ~updated /\ ~db.exists

\* C6: remove_entry of an entry the list holds removes the first match and only it:
\* the other entries stay in order, later duplicates included, and the flag is set.
C6_RemoveFirstMatch ==
    (act = "remove_entry" /\ pre.kind = "list" /\ arg \in Range(pre.list))
    => /\ err = "none"
       /\ updated
       /\ data.kind = "list"
       /\ Len(data.list) = Len(pre.list) - 1
       /\ \E i \in 1..Len(pre.list) :
            /\ pre.list[i] = arg
            /\ \A j \in 1..(i - 1) : pre.list[j] # arg
            /\ data.list = SubSeq(pre.list, 1, i - 1) \o SubSeq(pre.list, i + 1, Len(pre.list))

\* C6 witness: the first of two equal entries was removed, the later one kept.
C6_Witness ==
    /\ act = "remove_entry"
    /\ arg = <<"a">>
    /\ pre.list = << <<"a">>, <<>>, <<"a">> >>
    /\ data.list = << <<>>, <<"a">> >>

\* C7: remove_entry of an identifier no entry matches raises nothing and leaves the
\* entries, the flag and secrets.db unchanged, in every state of a constructed store.
C7_RemoveAbsentIsNoop ==
    [][ (act' = "remove_entry" /\ ~(data.kind = "list" /\ arg' \in Range(data.list)))
        => (err' = "none" /\ UNCHANGED <<data, updated, db>>) ]_vars

\* The non-empty lines of a text, surrounding whitespace and terminators dropped.
NonEmptyLines(text) ==
    SelectSeq([i \in 1..Len(ReadLines(text)) |-> Strip(ReadLines(text)[i])],
              LAMBDA l : l # <<>>)

\* C8: with a staging file check_new_entry appends exactly its non-empty lines, in
\* order, sets the flag and deletes the file (a refused deletion leaves the merge in
\* place); without one the list and the flag are unchanged.
C8_StagingMerge ==
    [][ (act' \in {"open", "check_new_entry"} /\ phase' = "open")
        => IF staging.exists
           THEN /\ data' = ListData(pre'.list \o NonEmptyLines(staging.content))
                /\ updated'
                /\ staging' = IF deletable THEN NoFile ELSE staging
           ELSE /\ data' = pre'
                /\ updated' = (act' = "check_new_entry" /\ updated)
                /\ err' = "none" ]_vars

\* A line that surely decrypts under the key, and one that surely does not.
IntactLine(line, key) == Len(line) = 1 /\ line[1].ok /\ line[1].key = key
BrokenLine(line, key) == Len(line) = 0 \/ ~line[1].ok \/ line[1].key # key

\* C9: opening a secrets.db with a line that does not decrypt (another key, an altered
\* token) raises the decryption error out of the constructor, with the plaintexts of
\* the lines before it, and nothing else, in the entry list.
C9_DecryptionFailureSurfaces ==
    (act = "open" /\ keyfile # NoKeyFile /\ db.exists)
    => \A i \in 1..Len(db.content) :
         (/\ BrokenLine(db.content[i], DeriveKey(keyfile))
          /\ \A j \in 1..(i - 1) : IntactLine(db.content[j], DeriveKey(keyfile)))
         => /\ phase = "failed"
            /\ err = "InvalidToken"
            /\ data = ListData([j \in 1..(i - 1) |-> db.content[j][1].pt])

\* C9 witness: the second line was altered and the first line's entry is retained.
C9_Witness ==
    /\ act = "open" /\ phase = "failed" /\ err = "InvalidToken"
    /\ Len(db.content) = 2
    /\ data.list = << <<"a">> >>
    /\ ~db.content[2][1].ok

\* ------------------------------------------- src/totp.py: the formatted code

\* self.totp[:3] + " " + self.totp[3:]
TotpFmt(code) ==
    SubSeq(code, 1, IF Len(code) < 3 THEN Len(code) ELSE 3)
    \o <<" ">>
    \o SubSeq(code, 4, Len(code))

\* TOTP.get_totp_fmt: get_totp() (its result dropped), then the cached code cut after
\* its third character.
GetTotpFmt ==
    /\ IF IsOld(now, last_updated)
       THEN /\ counter' = UpdateCounter(now)
            /\ last_updated' = now
            /\ hmac_digest' = SetHotp(secret, counter', digits).hmac_digest
            /\ totp' = SetHotp(secret, counter', digits).totp
       ELSE UNCHANGED <<counter, last_updated, hmac_digest, totp>>
    /\ fmt' = TotpFmt(totp')
    /\ age' = now - last_updated
    /\ called' = TRUE
    /\ UNCHANGED <<now, secret, digits, ret, raised>>
    /\ UNCHANGED <<storeVars, b32Vars, ordVars, viewVars>>

FmtNext == Tick \/ GetTotpFmt

SpecFmt == TotpInit /\ [][FmtNext]_vars

\* C11: get_totp_fmt() returns the current code cut into two parts with one space
\* between them, the first part being the first digits/2 (integer division)
\* characters of the code: 3 + 3 for 6 digits, 4 + 4 for 8 digits.
C11_FmtSplitsAtHalf ==
    fmt # None =>
        fmt = SubSeq(totp, 1, digits \div 2) \o <<" ">>
              \o SubSeq(totp, (digits \div 2) + 1, Len(totp))

\* --------------------------------------- src/totp.py: __set_hotp as a function

\* Counters handed to __set_hotp, negative ones among them.
CounterSamples == {-3, -1, 0, 1, 2, 59, 1000000}

\* Widths handed to __set_hotp, zero among them.
WidthSamples == 0..10

\* The arguments of one __set_hotp call; no code yet.
HotpArgsInit ==
    /\ \E s \in Secrets : secret = Upper(s)
    /\ counter \in CounterSamples
    /\ digits \in WidthSamples
    /\ totp = None
    /\ raised = "none"
    /\ called = FALSE
    /\ now = 0 /\ last_updated = 0 /\ hmac_digest = <<>> /\ ret = None /\ age = 0
    /\ fmt = None
    /\ StoreIdle
    /\ B32Idle /\ OrdIdle /\ ViewIdle

\* TOTP.__set_hotp: __custom_pack_q raises ValueError for a negative counter, before
\* self.totp is assigned; nothing else in the method checks an argument.
SetHotpCall ==
    /\ ~called
    /\ called' = TRUE
    /\ IF counter < 0
       THEN /\ raised' = CustomPackQ(counter)
            /\ UNCHANGED <<hmac_digest, totp>>
       ELSE /\ raised' = "none"
            /\ hmac_digest' = SetHotp(secret, counter, digits).hmac_digest
            /\ totp' = SetHotp(secret, counter, digits).totp
    /\ UNCHANGED <<now, secret, digits, last_updated, counter, ret, age, fmt>>
    /\ UNCHANGED <<storeVars, b32Vars, ordVars, viewVars>>

HotpArgsNext == SetHotpCall

SpecHotpArgs == HotpArgsInit /\ [][HotpArgsNext]_vars

\* C12: a __set_hotp call with a negative counter or with digits <= 0 raises an
\* error and sets no code.
C12_InvalidArgumentsRejected ==
    called /\ (counter < 0 \/ digits <= 0) => raised # "none" /\ totp = None

\* ------------------------------------------ src/main.py: the Base32 decoder

\* The accumulator `bits` of one chunk, up to 40 bits wide, as two limbs:
\* bits = hi * 2^16 + lo with lo < 2^16.
Bits(hi, lo) == [hi |-> hi, lo |-> lo]

\* (bits << 5) | index: the five low bits of the shifted value are zero, so | is +.
ShiftIn(bits, index) ==
    Bits(bits.hi * 32 + ((bits.lo * 32 + index) \div 65536), (bits.lo * 32 + index) % 65536)

\* bits += 5
AddFive(bits) == Bits(bits.hi + ((bits.lo + 5) \div 65536), (bits.lo + 5) % 65536)

\* The loop over the characters of a chunk: "=" adds 5 to bits, any other character
\* is shifted in with its index in BASE32_ALPHABET.
RECURSIVE ChunkBits(_, _)
ChunkBits(chunk, bits) ==
    IF chunk = <<>> THEN bits
    ELSE ChunkBits(Tail(chunk),
                   IF Head(chunk) = "=" THEN AddFive(bits)
                   ELSE ShiftIn(bits, B32Value(Head(chunk))))

\* (bits >> (8 * (4 - j))) & 0xFF for j = 0..4
ByteOf(bits, j) ==
    IF j = 0 THEN (bits.hi \div 65536) % 256
    ELSE IF j = 1 THEN (bits.hi \div 256) % 256
    ELSE IF j = 2 THEN bits.hi % 256
    ELSE IF j = 3 THEN (bits.lo \div 256) % 256
    ELSE bits.lo % 256

\* The loop that appends the bytes of a chunk: a byte is appended when it is not zero.
ChunkBytes(bits) == SelectSeq([j \in 1..5 |-> ByteOf(bits, j - 1)], LAMBDA b : b # 0)

\* encoded_str += "=" * (8 - padding_len) when padding_len is not zero
PadToEight(s) ==
    IF Len(s) % 8 = 0 THEN s ELSE s \o [i \in 1..(8 - (Len(s) % 8)) |-> "="]

\* The loop over the chunks of 8 characters.
RECURSIVE DecodeChunks(_)
DecodeChunks(s) ==
    IF s = <<>> THEN <<>>
    ELSE ChunkBytes(ChunkBits(SubSeq(s, 1, 8), Bits(0, 0)))
         \o DecodeChunks(SubSeq(s, 9, Len(s)))

\* TOTP.__b32decode of main.py
B32DecodeMain(encoded_str) == DecodeChunks(PadToEight(Strip(Upper(encoded_str))))

\* Characters of the strings decoded: the values 0, 12, 24 and 31, either case.
B32Chars == {"A", "M", "y", "7"}

\* Characters of the longer strings decoded.
B32LongChars == {"A", "7"}

Strings(S, n) == [1..n -> S]

\* secret_padded of __get_hotp: strings of a length Base32 can have, padded with "=".
B32Inputs ==
    {PadToEight(s) : s \in Strings(B32Chars, 2) \cup Strings(B32Chars, 4)
                          \cup Strings(B32Chars, 5)
                          \cup Strings(B32LongChars, 8) \cup Strings(B32LongChars, 10)}

B32Init ==
    /\ encoded \in B32Inputs
    /\ decoded = NotDone
    /\ TotpIdle /\ StoreIdle
    /\ FmtIdle /\ OrdIdle /\ ViewIdle

\* One call of __b32decode on the padded string.
B32DecodeCall ==
    /\ ~decoded.done
    /\ decoded' = [done |-> TRUE, bytes |-> B32DecodeMain(encoded)]
    /\ UNCHANGED <<encoded, totpVars, storeVars, fmtVars, ordVars, viewVars>>

B32Next == B32DecodeCall

SpecB32 == B32Init /\ [][B32Next]_vars

\* The string without its padding.
Unpadded(s) == SelectSeq(s, LAMBDA c : c # "=")

\* C13: for every padded Base32 string the decoder of main.py returns the bytes the
\* reference decoding (base64.b32decode, casefold) returns: one byte per 8 bits of
\* the symbols, zero bytes included, nothing from the padding.
C13_DecoderMatchesReference ==
    decoded.done => decoded.bytes = b32decode(Unpadded(encoded))

\* --------------------------------------- src/totp.py: the ordering of TOTPs

\* ord(c) of a letter or of a digit 2..7
Ord(c) ==
    IF \E i \in 1..26 : LowerLetters[i] = c
    THEN 96 + (CHOOSE i \in 1..26 : LowerLetters[i] = c)
    ELSE LET i == CHOOSE k \in 1..32 : BASE32_ALPHABET[k] = c
         IN  IF i <= 26 THEN 64 + i ELSE 23 + i

\* c.lower() for one character
LowerChar(c) ==
    IF \E i \in 1..26 : BASE32_ALPHABET[i] = c
    THEN LowerLetters[CHOOSE i \in 1..26 : BASE32_ALPHABET[i] = c]
    ELSE c

\* s.casefold() of a string of ASCII letters
Casefold(s) == [i \in 1..Len(s) |-> LowerChar(s[i])]

\* s < t of two str: by code point, at the first position where they differ; a
\* proper prefix comes first.
RECURSIVE StrLt(_, _)
StrLt(s, t) ==
    IF t = <<>> THEN FALSE
    ELSE IF s = <<>> THEN TRUE
    ELSE IF Head(s) = Head(t) THEN StrLt(Tail(s), Tail(t))
    ELSE Ord(Head(s)) < Ord(Head(t))

\* A plausible slip: the names are compared without regard to case.
NameLtFolded(self_name, other_name) == StrLt(Casefold(self_name), Casefold(other_name))

\* TOTP.__lt__: self.name < other.name, the names as the constructor stored them.
NameLt(self_name, other_name) == StrLt(self_name, other_name)

\* Letters of the names, in both cases.
NameChars == {"A", "a", "B", "b"}

\* Longest name.
MaxNameLen == 2

\* The names two TOTP objects are constructed with (self.name = name).
Names == UNION {[1..n -> NameChars] : n \in 0..MaxNameLen}

OrderInit ==
    /\ name_a \in Names
    /\ name_b \in Names
    /\ lt = NoResult
    /\ TotpIdle /\ StoreIdle
    /\ FmtIdle /\ B32Idle /\ ViewIdle

\* The comparison a < b of the two objects.
LtCall ==
    /\ ~lt.done
    /\ lt' = [done |-> TRUE, value |-> NameLt(name_a, name_b)]
    /\ UNCHANGED <<name_a, name_b, totpVars, storeVars, fmtVars, b32Vars, viewVars>>

OrderNext == LtCall

SpecOrder == OrderInit /\ [][OrderNext]_vars

\* a comes before b in code-point order: a is a proper prefix of b, or at the first
\* position where they differ a has the smaller code point.
Precedes(a, b) ==
    \/ Len(a) < Len(b) /\ SubSeq(b, 1, Len(a)) = a
    \/ \E i \in 1..Len(a) :
          /\ i <= Len(b)
          /\ SubSeq(a, 1, i - 1) = SubSeq(b, 1, i - 1)
          /\ Ord(a[i]) < Ord(b[i])

ReadPositions(digest) == {Offset(digest) + k : k \in 0..3}

\* C15: for every 20-byte digest the offset (low nibble of the last byte) lies in
\* 0..15, the four bytes read at offset..offset+3 lie inside the digest, the highest
\* position read being at most 18, and the truncated value lies in 0 .. 2^31 - 1.
C15_TruncationInBounds ==
    /\ Len(hmac_digest) = 20
    /\ Offset(hmac_digest) \in 0..15
    /\ \A p \in ReadPositions(hmac_digest) : p \in 0..18
    /\ Truncated(hmac_digest) \in 0..2147483647

\* C15 witness: a code was computed from a digest whose offset is 15 (bytes 15..18
\* read) and whose first byte read has its top bit set, masked off to give 2^31 - 1.
C15_Witness ==
    /\ totp # None
    /\ Offset(hmac_digest) = 15
    /\ hmac_digest[16] = 255
    /\ Truncated(hmac_digest) = 2147483647

\* ------------------------------------------------ claims: the cache's age

C17_FinalizeKeepsList == act = "finalize" => data = pre

\* C18: the constructor reads the key file, derives the key, decrypts secrets.db and
\* merges the staging file, in that order. Without a key file nothing is derived or
\* decrypted; when the key file is missing or secrets.db does not decrypt, the
\* construction ends before the staging file is read: the staging file stays as it
\* was (not deleted, no entry lost), secrets.db is not modified and the store is not
\* dirty. When it succeeds the decrypted entries come first, the staging entries
\* after them.
C18_ConstructionOrder ==
    [][ act' = "open" =>
          /\ keyfile = NoKeyFile =>
                /\ phase' = "failed" /\ err' = "FileNotFoundError"
                /\ cipher' = None /\ data' = ListData(<<>>)
          /\ keyfile # NoKeyFile => cipher' = DeriveKey(keyfile)
          /\ phase' = "failed" =>
                /\ err' \in {"FileNotFoundError", "InvalidToken"}
                /\ staging' = staging
                /\ db' = db
                /\ updated' = FALSE
          /\ phase' = "open" =>
                /\ pre'.kind = "list"
                /\ \E first_only \in BOOLEAN :
                      DecryptDb(db, cipher', first_only, <<>>) = [data |-> pre'.list, err |-> "none"]
                /\ data'.list = AppendLines(pre'.list, ReadLines(staging.content))
                /\ db' = db ]_vars

\* C18 witness: a construction ended at a secrets.db line that does not decrypt, and
\* the staging file, with an entry in it, is still there.
C18_Witness ==
    /\ act = "open" /\ phase = "failed" /\ err = "InvalidToken"
    /\ staging.exists /\ "a" \in Range(staging.content)
    /\ deletable
    /\ updated = FALSE

\* ------------------------------------------------ src/view.py: the window

PROGRESS_BAR_TIME == 30

\* Latest time of a timer tick.
MaxViewTime == 125

\* A plausible slip: the countdown restarts two short of the bar's range.
StartProgressShort == PROGRESS_BAR_TIME - 2

\* MainWindow.start_progress: the value current_value is set to.
StartProgress == PROGRESS_BAR_TIME

\* TOTP.__init__ at time t, as a value: the fields of one object.
NewTotp(sec, ndigits, t) ==
    [secret |-> Upper(sec), digits |-> ndigits, counter |-> UpdateCounter(t),
     last_updated |-> t, totp |-> HotpCode(Upper(sec), UpdateCounter(t), ndigits)]

\* TOTP.get_totp of object o at time t: the object after the call; o.totp is returned.
GetTotpOn(o, t) ==
    IF IsOld(t, o.last_updated)
    THEN [o EXCEPT !.counter = UpdateCounter(t), !.last_updated = t,
                   !.totp = HotpCode(o.secret, UpdateCounter(t), o.digits)]
    ELSE o

\* MainWindow.refresh_totp_codes at time t: get_totp() of every object, in order, and
\* the text of its label.
RefreshTotpCodes(objects, t) ==
    [objects |-> [i \in 1..Len(objects) |-> GetTotpOn(objects[i], t)],
     labels  |-> [i \in 1..Len(objects) |-> GetTotpOn(objects[i], t).totp]]

\* Times the window is constructed at.
ViewStarts == {31, 59}

\* How long before the window each TOTP object was constructed.
ConstructionLeads == {0, 29, 31}

\* Seconds between two timer ticks: the interval of timer.start(1000), or more.
TickGaps == {1, 2}

\* MainWindow.__init__ at time now over two TOTP objects constructed before: for each a
\* create_frame (label from get_totp(), both stored), then start_progress.
ViewInit ==
    /\ now \in ViewStarts
    /\ \E d1 \in ConstructionLeads, d2 \in ConstructionLeads :
         LET totp_list == <<NewTotp(<<"J", "B", "S", "W", "Y", "3", "D", "P">>, 6, now - d1),
                            NewTotp(<<"m", "z", "x", "w", "6">>, 8, now - d2)>>
         IN  /\ totp_objects = RefreshTotpCodes(totp_list, now).objects
             /\ totp_labels = RefreshTotpCodes(totp_list, now).labels
    /\ current_value = StartProgress
    /\ ticks = 0
    /\ refreshes = 0
    /\ secret = <<>> /\ digits = 6 /\ last_updated = 0 /\ counter = 0
    /\ hmac_digest = <<>> /\ totp = None /\ ret = None /\ age = 0 /\ called = FALSE
    /\ StoreIdle
    /\ FmtIdle /\ B32Idle /\ OrdIdle

\* A timer tick: MainWindow.update_progress, with refresh_totp_codes and
\* start_progress when the countdown is at 0.
UpdateProgress ==
    /\ \E gap \in TickGaps :
         /\ now + gap <= MaxViewTime
         /\ now' = now + gap
    /\ IF current_value > 0
       THEN /\ current_value' = current_value - 1
            /\ ticks' = ticks + 1
            /\ UNCHANGED <<totp_objects, totp_labels, refreshes>>
       ELSE /\ totp_objects' = RefreshTotpCodes(totp_objects, now').objects
            /\ totp_labels' = RefreshTotpCodes(totp_objects, now').labels
            /\ current_value' = StartProgress
            /\ ticks' = 0
            /\ refreshes' = refreshes + 1
    /\ UNCHANGED <<secret, digits, last_updated, counter, hmac_digest, totp, ret, age, called>>
    /\ UNCHANGED <<storeVars, fmtVars, b32Vars, ordVars>>

ViewNext == UpdateProgress

SpecView == ViewInit /\ [][ViewNext]_vars

\* C19: with ticks at least a second apart current_value stays in
\* 0..PROGRESS_BAR_TIME; a tick refreshes the codes exactly when it finds
\* current_value = 0, which is the 31st tick since the countdown started, and then
\* restarts the countdown at 30; every refresh finds each TOTP's cached code at least
\* 30 seconds old, so label i is set to the code object i recomputes for the counter
\* floor(now / 30) of the refresh; any other tick counts down by one and leaves the
\* labels alone.
C19_ViewRefreshLoop ==
    [][ now' # now =>
          /\ current_value \in 0..PROGRESS_BAR_TIME
          /\ current_value' \in 0..PROGRESS_BAR_TIME
          /\ (refreshes' = refreshes + 1) <=> (current_value = 0)
          /\ (current_value = 0) <=> (ticks = 30)
          /\ current_value = 0 =>
                /\ current_value' = 30
                /\ \A i \in 1..Len(totp_objects) :
                      /\ now' - totp_objects[i].last_updated >= 30
                      /\ totp_objects'[i].counter = now' \div 30
                      /\ totp_objects'[i].last_updated = now'
                      /\ totp_labels'[i] = HotpCode(totp_objects[i].secret, now' \div 30,
                                                   totp_objects[i].digits)
          /\ current_value > 0 =>
                /\ current_value' = current_value - 1
                /\ UNCHANGED <<totp_objects, totp_labels, refreshes>> ]_vars

\* C19 witness: the second refresh has happened, 31 seconds after the first (every
\* tick a second apart), with both labels showing the codes of the new counter.
C19_Witness ==
    /\ refreshes = 2
    /\ ticks = 0
    /\ current_value = 30
    /\ now = 93
    /\ \A i \in 1..2 : totp_labels[i] = HotpCode(totp_objects[i].secret, 3, totp_objects[i].digits)

====
